---- MODULE Spec2Model ----
(***************************************************************************)
(* Model of src/app.py: the ConnectionManager (the registry of live        *)
(* WebSocket connections and its broadcast) and websocket_endpoint, the    *)
(* per-connection handler coroutine that drives it.                        *)
(*                                                                         *)
(* The handlers are asyncio coroutines on one event loop: a handler runs   *)
(* without interruption from one await to the next.  A state of the model  *)
(* has every handler suspended at an await (or not started, or ended); an  *)
(* action resumes one handler with the outcome of the await it is          *)
(* suspended in and runs it to its next await.                             *)
(***************************************************************************)
EXTENDS Integers, Sequences, FiniteSets, TLC

\* ---------------------------------------------------------------- bounds
NumConns == 3          \* WebSocket objects (one handler invocation each)
NumClientIds == 2      \* distinct values of the {client_id} path parameter
MaxMsgs == 1           \* inbound text messages read over the whole run
OrderConns == 2        \* connections of the runs that look at message order,
                       \*   and of the runs with HTTP requests
OrderMsgs == 2         \* inbound text messages read in those runs
MaxCalls == 4          \* connect calls on the manager and execute() calls on
                       \*   the store when they are driven directly
NumSessions == 2       \* distinct session ids used in requests
MaxTime == 2           \* distinct timestamps of events

Conns == 1..NumConns
ClientIds == 1..NumClientIds
None == 0

\* The exceptions the awaits of the handler can raise: the one the handler
\* catches (line 152) and any other one.
WebSocketDisconnect == "WebSocketDisconnect"
OtherError == "Error"
Raisable == {WebSocketDisconnect, OtherError}

VARIABLES
  active_connections,  \* ConnectionManager.active_connections (a list)
  pc,                  \* per handler: the await it is suspended in
  client_id,           \* per handler: the client_id path parameter
  data,                \* per handler: the local `data` of the loop body
  visited,             \* per handler: the connections its current (or last)
                       \*   broadcast loop has fetched; the list iterator's
                       \*   index is Len(visited), the send in flight is to
                       \*   the last one
  snap,                \* per handler: active_connections as it was when its
                       \*   current (or last) broadcast call started
  message,             \* per handler: the text of the send it is suspended in
  chan,                \* per connection: "open" while its WebSocket carries
                       \*   messages, "closed" once the peer is gone or the
                       \*   handler has ended (send_text and accept raise)
  sent,                \* per connection: texts send_text was called with
  delivered,           \* per connection: texts whose send_text returned
  raised,              \* per handler: the last exception raised in it
  removals,            \* per connection: times disconnect() removed it
  nmsg,                \* inbound messages read so far
  err,                 \* exception raised by the last direct manager call
  supabase_url,        \* os.getenv("SUPABASE_URL")
  supabase_key,        \* os.getenv("SUPABASE_KEY")
  session_metadata,    \* the rows of the store's session_metadata table
  event_log,           \* the rows of the store's event_log table
  response,            \* the last HTTP request and how it ended
  store_calls          \* execute() calls made on the store so far

\* the state of the real-time relay and the state the HTTP endpoints use
relay == <<active_connections, pc, client_id, data, visited, snap, message,
           chan, sent, delivered, raised, removals, nmsg, err>>
http == <<supabase_url, supabase_key, session_metadata, event_log, response,
          store_calls>>

vars == <<active_connections, pc, client_id, data, visited, snap, message,
          chan, sent, delivered, raised, removals, nmsg, err,
          supabase_url, supabase_key, session_metadata, event_log, response,
          store_calls>>

\* ------------------------------------------------------------- helpers
Range(s) == {s[i] : i \in 1..Len(s)}

Count(s, x) == Cardinality({i \in 1..Len(s) : s[i] = x})

\* index of the first occurrence of x in s, 0 when there is none
IndexOf(s, x) ==
  IF x \in Range(s) THEN CHOOSE i \in 1..Len(s) : s[i] = x /\ \A j \in 1..(i-1) : s[j] # x
  ELSE 0

\* list.remove(x) on a list that holds x: drops the first occurrence
ListRemove(s, x) ==
  LET k == IndexOf(s, x)
  IN  [i \in 1..(Len(s) - 1) |-> IF i < k THEN s[i] ELSE s[i + 1]]

\* the text the peer of connection c types as its n-th message
PeerText(c, n) == 10 * c + n

\* (an echo that carries the text before the one just read)
YouWroteEarlier(d) == [fmt |-> "You wrote: {data}", client_id |-> None, data |-> d - 1]

\* f"You wrote: {data}"
YouWrote(d) == [fmt |-> "You wrote: {data}", client_id |-> None, data |-> d]
\* f"Client #{client_id} says: {data}"
ClientSays(id, d) == [fmt |-> "Client #{client_id} says: {data}", client_id |-> id, data |-> d]
\* f"Client #{client_id} left the chat"
ClientLeft(id) == [fmt |-> "Client #{client_id} left the chat", client_id |-> id, data |-> None]

NoMessage == [fmt |-> "", client_id |-> None, data |-> None]
\* An exception raised in a handler: what was raised, in which await (at), for
\* a send the connection and the text it was for, and for a send of a broadcast
\* the list the broadcast call started on.
Exception(e, at, to, m, reg) == [exc |-> e, at |-> at, to |-> to, message |-> m, registry |-> reg]
NoError == Exception("", "", None, NoMessage, <<>>)

\* A direct call of a manager method: the method, its argument and the
\* exception it raised ("" when it returned).
Call(f, c, e) == [call |-> f, arg |-> c, exc |-> e]
NoCall == Call("", None, "")
ValueError == "ValueError"

\* An environment variable: not set (os.getenv returns None), set to the
\* empty string, or set to a value.
Unset == "<unset>"
Settings == {Unset, "", "value"}

\* An HTTP request and its outcome: the endpoint, its argument, the status
\* code and the body ("" before any request).
Response(f, arg, status, body) ==
  [endpoint |-> f, arg |-> arg, status |-> status, body |-> body, detail |-> ""]
NoResponse == Response("", None, None, <<>>)

\* No HTTP request has been made, both settings are present, the store is empty.
HttpIdle ==
  /\ supabase_url = "value"
  /\ supabase_key = "value"
  /\ session_metadata = {}
  /\ event_log = {}
  /\ response = NoResponse
  /\ store_calls = 0

Sending == {"echo", "bcast", "leave"}
Ended == {"done", "crashed"}
Target(c) == visited[c][Len(visited[c])]

\* ------------------------------------------------- the initial state
Init ==
  /\ active_connections = <<>>
  /\ pc = [c \in Conns |-> "idle"]
  /\ client_id = [c \in Conns |-> None]
  /\ data = [c \in Conns |-> None]
  /\ visited = [c \in Conns |-> <<>>]
  /\ snap = [c \in Conns |-> <<>>]
  /\ message = [c \in Conns |-> NoMessage]
  /\ chan = [c \in Conns |-> "open"]
  /\ sent = [c \in Conns |-> <<>>]
  /\ delivered = [c \in Conns |-> <<>>]
  /\ raised = [c \in Conns |-> NoError]
  /\ removals = [c \in Conns |-> 0]
  /\ nmsg = 0
  /\ err = NoCall
  /\ HttpIdle

\* --------------------------------------------- ConnectionManager
\* (a broadcast that iterated a copy of the list taken when the call started)
IterViewSnapshot(reg, s) == s

\* The list the for loop of broadcast iterates: the live list itself (reg),
\* not the copy s taken when the call started.
IterView(reg, s) == reg

\* (a connect that appends before it awaits accept)
connectBeforeAccept(reg, c, accepted) == Append(reg, c)

\* ConnectionManager.connect: `await websocket.accept()`, then
\* `self.active_connections.append(websocket)`; when accept raises the append
\* is not reached.
connect(reg, c, accepted) == IF accepted THEN Append(reg, c) ELSE reg

\* (a manager that drops a connection from the list when a send to it fails)
RegistryAfterSendPruned(reg, y, ok) ==
  IF ok \/ y \notin Range(reg) THEN reg ELSE ListRemove(reg, y)

\* ConnectionManager.send_personal_message and the loop body of broadcast:
\* `await websocket.send_text(message)` and nothing else; the list is the
\* same after the send to y, whether it returned (ok) or raised.
RegistryAfterSend(reg, y, ok) == reg

\* ConnectionManager.disconnect: self.active_connections.remove(websocket);
\* list.remove raises ValueError when the list does not hold the value.
disconnectRaises(reg, c) == c \notin Range(reg)
disconnect(reg, c) == ListRemove(reg, c)

\* The handler of c goes on to the await `where`.
Goto(c, where) ==
  /\ pc' = [pc EXCEPT ![c] = where]
  /\ chan' = chan

\* The handler of c returns ("done") or is left by an exception ("crashed"):
\* the server closes its WebSocket, a later send_text on it raises.
HandlerEnds(c, how) ==
  /\ pc' = [pc EXCEPT ![c] = how]
  /\ chan' = [chan EXCEPT ![c] = "closed"]

\* One turn of `for connection in self.active_connections: await
\* connection.send_text(message)` in the broadcast call of handler c, which
\* started on the list s and has fetched i connections so far: the iterator
\* reads the list reg at index i; when there is an entry, send_text is called
\* on it and the handler is suspended in that send (at = "bcast" in the loop
\* body, "leave" in the except clause); when there is none the call returns,
\* to the next receive_text or to the end of the handler.
BroadcastNext(c, reg, s, i, m, at) ==
  LET view == IterView(reg, s)
  IN  IF i < Len(view)
      THEN LET y == view[i + 1]
           IN  /\ Goto(c, at)
               /\ visited' = [visited EXCEPT ![c] = IF i = 0 THEN <<y>> ELSE Append(@, y)]
               /\ message' = [message EXCEPT ![c] = m]
               /\ sent' = [sent EXCEPT ![y] = Append(@, m)]
      ELSE /\ IF at = "bcast" THEN Goto(c, "recv") ELSE HandlerEnds(c, "done")
           /\ visited' = [visited EXCEPT ![c] = IF i = 0 THEN <<>> ELSE @]
           /\ message' = [message EXCEPT ![c] = NoMessage]
           /\ sent' = sent

\* The call manager.broadcast(m) of handler c, up to its first await.
broadcast(c, reg, m, at) ==
  /\ snap' = [snap EXCEPT ![c] = reg]
  /\ BroadcastNext(c, reg, reg, 0, m, at)

\* The except clause of the handler (lines 152-154), up to its first await.
ExceptWebSocketDisconnect(c, reg) ==
  IF disconnectRaises(reg, c)
  THEN /\ HandlerEnds(c, "crashed")
       /\ message' = [message EXCEPT ![c] = NoMessage]
       /\ active_connections' = reg
       /\ UNCHANGED <<removals, visited, snap, sent>>
  ELSE /\ active_connections' = disconnect(reg, c)
       /\ removals' = [removals EXCEPT ![c] = @ + 1]
       /\ broadcast(c, active_connections', ClientLeft(client_id[c]), "leave")

\* An exception e raised by an await of the try block (lines 148-151), the
\* list being reg when it is raised.
RaiseInTry(c, reg, e, at, to, m) ==
  /\ raised' = [raised EXCEPT ![c] = Exception(e, at, to, m, IF at = "bcast" THEN snap[c] ELSE <<>>)]
  /\ IF e = WebSocketDisconnect
     THEN ExceptWebSocketDisconnect(c, reg)
     ELSE /\ HandlerEnds(c, "crashed")
          /\ message' = [message EXCEPT ![c] = NoMessage]
          /\ active_connections' = reg
          /\ UNCHANGED <<removals, visited, snap, sent>>

\* ------------------------------------------- websocket_endpoint
\* A client opens /ws/{id}: the handler starts and awaits the handshake.
\* WebSocket objects are numbered in the order their handlers start, and
\* client ids in the order they are first used.
Start(c, id) ==
  /\ pc[c] = "idle"
  /\ \A b \in Conns : b < c => pc[b] # "idle"
  /\ \A i \in ClientIds : i < id => \E b \in Conns : client_id[b] = i
  /\ pc' = [pc EXCEPT ![c] = "accept"]
  /\ client_id' = [client_id EXCEPT ![c] = id]
  /\ UNCHANGED <<active_connections, data, visited, snap, message, chan, sent,
                 delivered, raised, removals, nmsg, err>>
  /\ UNCHANGED http

\* ConnectionManager.connect: accept() returned, the connection is appended.
Connect(c) ==
  /\ pc[c] = "accept"
  /\ chan[c] = "open"
  /\ active_connections' = connect(active_connections, c, TRUE)
  /\ pc' = [pc EXCEPT ![c] = "recv"]
  /\ UNCHANGED <<client_id, data, visited, snap, message, chan, sent,
                 delivered, raised, removals, nmsg, err>>
  /\ UNCHANGED http

\* accept() raised: connect is called outside the try block, the exception
\* leaves the handler.
ConnectFail(c) ==
  /\ pc[c] = "accept"
  /\ chan[c] = "closed"
  /\ active_connections' = connect(active_connections, c, FALSE)
  /\ HandlerEnds(c, "crashed")
  /\ raised' = [raised EXCEPT ![c] = Exception(OtherError, "accept", c, NoMessage, <<>>)]
  /\ UNCHANGED <<client_id, data, visited, snap, message,
                 sent, delivered, removals, nmsg, err>>
  /\ UNCHANGED http

\* receive_text() returned the peer's next text: the handler calls
\* send_personal_message(f"You wrote: {data}") and is suspended in that send.
ReceiveText(c, bound) ==
  /\ pc[c] = "recv"
  /\ chan[c] = "open"
  /\ nmsg < bound
  /\ nmsg' = nmsg + 1
  /\ data' = [data EXCEPT ![c] = PeerText(c, nmsg + 1)]
  /\ pc' = [pc EXCEPT ![c] = "echo"]
  /\ message' = [message EXCEPT ![c] = YouWrote(data'[c])]
  /\ visited' = [visited EXCEPT ![c] = <<c>>]
  /\ sent' = [sent EXCEPT ![c] = Append(@, YouWrote(data'[c]))]
  /\ UNCHANGED <<active_connections, client_id, snap, chan, delivered, raised,
                 removals, err>>
  /\ UNCHANGED http

Receive(c) == ReceiveText(c, MaxMsgs)

\* receive_text() raised WebSocketDisconnect: the peer has closed.
ReceiveDisconnect(c) ==
  /\ pc[c] = "recv"
  /\ chan[c] = "closed"
  /\ RaiseInTry(c, active_connections, WebSocketDisconnect, "recv", c, NoMessage)
  /\ UNCHANGED <<client_id, data, delivered, nmsg, err>>
  /\ UNCHANGED http

\* receive_text() raised something else (the peer sent a frame that is not
\* text): nothing catches it.
ReceiveError(c) ==
  /\ pc[c] = "recv"
  /\ chan[c] = "open"
  /\ RaiseInTry(c, active_connections, OtherError, "recv", c, NoMessage)
  /\ UNCHANGED <<client_id, data, delivered, nmsg, err>>
  /\ UNCHANGED http

\* The send the handler c is suspended in returned.
SendOk(c) ==
  /\ pc[c] \in Sending
  /\ chan[Target(c)] = "open"
  /\ delivered' = [delivered EXCEPT ![Target(c)] = Append(@, message[c])]
  /\ active_connections' = RegistryAfterSend(active_connections, Target(c), TRUE)
  /\ IF pc[c] = "echo"
     THEN broadcast(c, active_connections', ClientSays(client_id[c], data[c]), "bcast")
     ELSE /\ BroadcastNext(c, active_connections', snap[c], Len(visited[c]), message[c], pc[c])
          /\ snap' = snap
  /\ UNCHANGED <<client_id, data, raised, removals, nmsg, err>>
  /\ UNCHANGED http

\* The send the handler c is suspended in raised e: its peer is gone.  In the
\* loop body the exception reaches the try block; in the except clause
\* nothing catches it.
SendFail(c, e) ==
  /\ pc[c] \in Sending
  /\ chan[Target(c)] = "closed"
  /\ IF pc[c] = "leave"
     THEN /\ raised' = [raised EXCEPT ![c] = Exception(e, "leave", Target(c), message[c], snap[c])]
          /\ HandlerEnds(c, "crashed")
          /\ message' = [message EXCEPT ![c] = NoMessage]
          /\ active_connections' = RegistryAfterSend(active_connections, Target(c), FALSE)
          /\ UNCHANGED <<removals, visited, snap, sent>>
     ELSE RaiseInTry(c, RegistryAfterSend(active_connections, Target(c), FALSE),
                     e, pc[c], Target(c), message[c])
  /\ UNCHANGED <<client_id, data, delivered, nmsg, err>>
  /\ UNCHANGED http

\* The peer of c goes away (closes, or its network drops).
PeerClose(c) ==
  /\ pc[c] # "idle"
  /\ chan[c] = "open"
  /\ chan' = [chan EXCEPT ![c] = "closed"]
  /\ UNCHANGED <<active_connections, pc, client_id, data, visited, snap,
                 message, sent, delivered, raised, removals, nmsg, err>>
  /\ UNCHANGED http

Next ==
  \/ \E c \in Conns, id \in ClientIds : Start(c, id)
  \/ \E c \in Conns : Connect(c)
  \/ \E c \in Conns : ConnectFail(c)
  \/ \E c \in Conns : Receive(c)
  \/ \E c \in Conns : ReceiveDisconnect(c)
  \/ \E c \in Conns : ReceiveError(c)
  \/ \E c \in Conns : SendOk(c)
  \/ \E c \in Conns, e \in Raisable : SendFail(c, e)
  \/ \E c \in Conns : PeerClose(c)

Spec == Init /\ [][Next]_vars

\* ------------------------------------------- several messages of a sender
\* The same handlers with fewer connections and more messages.
StartFew(c, id) == c <= OrderConns /\ Start(c, id)

ReceiveMore(c) == ReceiveText(c, OrderMsgs)

NextOrder ==
  \/ \E c \in Conns, id \in ClientIds : StartFew(c, id)
  \/ \E c \in Conns : Connect(c)
  \/ \E c \in Conns : ConnectFail(c)
  \/ \E c \in Conns : ReceiveMore(c)
  \/ \E c \in Conns : ReceiveDisconnect(c)
  \/ \E c \in Conns : ReceiveError(c)
  \/ \E c \in Conns : SendOk(c)
  \/ \E c \in Conns, e \in Raisable : SendFail(c, e)
  \/ \E c \in Conns : PeerClose(c)

SpecOrder == Init /\ [][NextOrder]_vars

\* ------------------------------------------- a slow consumer
\* The peer of a joined connection stops reading: the send buffer of its
\* WebSocket fills, and a send_text on it neither returns nor raises until
\* the peer reads again.  No timeout bounds the await of line 140.
PeerStall(c) ==
  /\ pc[c] \in {"recv", "echo", "bcast", "leave"}
  /\ chan[c] = "open"
  /\ \A b \in Conns : chan[b] # "stalled"
  /\ chan' = [chan EXCEPT ![c] = "stalled"]
  /\ UNCHANGED <<active_connections, pc, client_id, data, visited, snap,
                 message, sent, delivered, raised, removals, nmsg, err>>
  /\ UNCHANGED http

PeerResume(c) ==
  /\ chan[c] = "stalled"
  /\ chan' = [chan EXCEPT ![c] = "open"]
  /\ UNCHANGED <<active_connections, pc, client_id, data, visited, snap,
                 message, sent, delivered, raised, removals, nmsg, err>>
  /\ UNCHANGED http

NextSlow ==
  \/ Next
  \/ \E c \in Conns : PeerStall(c)
  \/ \E c \in Conns : PeerResume(c)

\* A step of the handler of c that needs no new input from its peer: the
\* await it is suspended in can complete.
HandlerStep(c) ==
  \/ Connect(c)
  \/ ConnectFail(c)
  \/ ReceiveDisconnect(c)
  \/ SendOk(c)
  \/ \E e \in Raisable : SendFail(c, e)

\* The event loop resumes a coroutine whenever its await can complete (also
\* when that is so only each time a slow peer reads again); what the peers do
\* (send, close, stall, resume) is not forced.
SpecSlow == Init /\ [][NextSlow]_vars /\ \A c \in Conns : SF_vars(HandlerStep(c))

\* ------------------------------- the ConnectionManager driven directly
\* The methods of the manager called one after the other by a single caller,
\* with every peer there: each call runs to its end before the next starts.
Sum(f, S) ==
  LET RECURSIVE Acc(_)
      Acc(T) == IF T = {} THEN 0 ELSE LET t == CHOOSE u \in T : TRUE IN f[t] + Acc(T \ {t})
  IN  Acc(S)

Repeat(m, n) == [i \in 1..n |-> m]

InitMgr ==
  /\ active_connections = <<>>
  /\ pc = [c \in Conns |-> "idle"]
  /\ client_id = [c \in Conns |-> ((c - 1) % NumClientIds) + 1]
  /\ data = [c \in Conns |-> None]
  /\ visited = [c \in Conns |-> <<>>]
  /\ snap = [c \in Conns |-> <<>>]
  /\ message = [c \in Conns |-> NoMessage]
  /\ chan = [c \in Conns |-> "open"]
  /\ sent = [c \in Conns |-> <<>>]
  /\ delivered = [c \in Conns |-> <<>>]
  /\ raised = [c \in Conns |-> NoError]
  /\ removals = [c \in Conns |-> 0]
  /\ nmsg = 0
  /\ err = NoCall
  /\ HttpIdle

\* await manager.connect(websocket)
MgrConnect(c) ==
  /\ Len(active_connections) + Sum(removals, Conns) + store_calls < MaxCalls
  /\ active_connections' = connect(active_connections, c, TRUE)
  /\ err' = Call("connect", c, "")
  /\ UNCHANGED <<pc, client_id, data, visited, snap, message, chan, sent,
                 delivered, raised, removals, nmsg>>
  /\ UNCHANGED http

\* manager.disconnect(websocket); await manager.broadcast(f"Client
\* #{client_id} left the chat"), as the except clause does: when disconnect
\* raises, the broadcast is not reached; otherwise every entry of the list
\* is sent the notice.
MgrLeave(c) ==
  /\ IF disconnectRaises(active_connections, c)
     THEN /\ err' = Call("disconnect", c, ValueError)
          /\ UNCHANGED <<active_connections, pc, client_id, data, visited, snap,
                         message, chan, sent, delivered, raised, removals, nmsg>>
     ELSE /\ active_connections' = disconnect(active_connections, c)
          /\ removals' = [removals EXCEPT ![c] = @ + 1]
          /\ err' = Call("disconnect", c, "")
          /\ sent' = [y \in Conns |->
                       sent[y] \o Repeat(ClientLeft(client_id[c]), Count(IterView(active_connections', active_connections'), y))]
          /\ delivered' = [y \in Conns |->
                       delivered[y] \o Repeat(ClientLeft(client_id[c]), Count(IterView(active_connections', active_connections'), y))]
          /\ UNCHANGED <<pc, client_id, data, visited, snap, message, chan, raised, nmsg>>
  /\ UNCHANGED http

NextMgr ==
  \/ \E c \in Conns : MgrConnect(c)
  \/ \E c \in Conns : MgrLeave(c)

SpecMgr == InitMgr /\ [][NextMgr]_vars

\* ------------------------------------------------ the HTTP endpoints
SessionIds == 1..NumSessions
Times == 1..MaxTime

HTTP_200_OK == 200
HTTP_201_CREATED == 201
HTTP_404_NOT_FOUND == 404
HTTP_500_INTERNAL_SERVER_ERROR == 500

\* SessionMetadata / EventLog as the rows the store keeps
SessionRow(sid) == [session_id |-> sid, user_id |-> "user"]
EventRow(eid, sid, t) ==
  [event_id |-> eid, session_id |-> sid, timestamp |-> t,
   event_type |-> "message", event_data |-> PeerText(1, 1)]

\* `not value` of Python: None and the empty string are falsy
Falsy(v) == v \in {Unset, ""}

\* (a check that gives way only when both settings are missing)
CredentialsMissingBoth(url, key) == Falsy(url) /\ Falsy(key)

\* get_supabase_client: `if not supabase_url or not supabase_key`
CredentialsMissing(url, key) == Falsy(url) \/ Falsy(key)

\* A select the store is asked to run: table.select("*").eq(col, val), with
\* .order(order) when order is a column name.
Query(table, col, val, order) ==
  [table |-> table, eq |-> col, val |-> val, order |-> order]

\* the rows a select matches
Select(rows, q) == {r \in rows : r[q.eq] = q.val}

\* the answers the store can give to a select: the matching rows, each once,
\* in any order that is ascending in the column q.order
Answers(rows, q) ==
  LET found == Select(rows, q)
      n == Cardinality(found)
  IN  {s \in [1..n -> found] :
         /\ \A i, j \in 1..n : s[i] = s[j] => i = j
         /\ q.order # "" =>
              \A i \in 1..(n - 1) : s[i][q.order] <= s[i + 1][q.order]}

\* get_session: .select("*").eq("session_id", str(session_id)).single()
SessionQuery(sid) == Query("session_metadata", "session_id", sid, "")

\* (a query that orders the events by their id)
EventsQueryById(sid) == Query("event_log", "session_id", sid, "event_id")

\* get_events_for_session: .select("*").eq("session_id", ...).order("timestamp")
EventsQuery(sid) == Query("event_log", "session_id", sid, "timestamp")

\* raise HTTPException(status_code=status, detail=detail)
HTTPException(status, detail) == [status |-> status, detail |-> detail]
\* what the store client raises when a call fails
APIError == [status |-> None, detail |-> "APIError"]

\* the response to a request whose handling raised the HTTPException e
Raises(f, arg, e) ==
  [endpoint |-> f, arg |-> arg, status |-> e.status, body |-> <<>>, detail |-> e.detail]

\* `except Exception as e: raise HTTPException(500, f"Database error: {e}")`:
\* whatever is raised
\* inside the try block, an HTTPException with another status included,
\* leaves the endpoint as a 500 whose detail names what was raised.
ExceptException(e) == HTTPException(HTTP_500_INTERNAL_SERVER_ERROR, e.detail)

\* (an endpoint that answers not-found when the store has no row)
StatusOfEventsNotFound(rows) ==
  IF rows # <<>> THEN HTTP_200_OK ELSE HTTP_404_NOT_FOUND

\* get_events_for_session: `if response.data: return response.data` and
\* `return []` both answer with the default status
StatusOfEvents(rows) == HTTP_200_OK

\* what the store does with a call: it answers with data, answers without
\* data, or the call raises
StoreOutcomes == {"data", "empty", "error"}

\* calls made so far on the manager and on the store
CallsMade == Len(active_connections) + Sum(removals, Conns) + store_calls

\* The dependency get_supabase_client stops the request before the endpoint
\* body runs: no store call is made.
NoClient(f, arg) ==
  /\ CredentialsMissing(supabase_url, supabase_key)
  /\ response' = Raises(f, arg, HTTPException(HTTP_500_INTERNAL_SERVER_ERROR,
                                              "Supabase URL or Key not found"))
  /\ UNCHANGED <<supabase_url, supabase_key, session_metadata, event_log,
                 store_calls>>

\* The dependency yields a client; the endpoint body makes one store call.
WithClient ==
  /\ ~CredentialsMissing(supabase_url, supabase_key)
  /\ CallsMade < MaxCalls
  /\ store_calls' = store_calls + 1
  /\ UNCHANGED <<supabase_url, supabase_key>>

\* POST /sessions/
create_session(sid) ==
  /\ \/ NoClient("create_session", sid)
     \/ \E o \in StoreOutcomes :
        /\ WithClient
        /\ event_log' = event_log
        /\ IF o = "error" \/ SessionRow(sid) \in session_metadata
           THEN /\ session_metadata' = session_metadata
                /\ response' = Raises("create_session", sid,
                                        ExceptException(APIError))
           ELSE /\ session_metadata' = session_metadata \cup {SessionRow(sid)}
                /\ response' =
                     IF o = "data"
                     THEN Response("create_session", sid, HTTP_201_CREATED,
                                   <<SessionRow(sid)>>)
                     ELSE Raises("create_session", sid,
                                   ExceptException(HTTPException(
                                     HTTP_500_INTERNAL_SERVER_ERROR, "Failed to create")))
  /\ UNCHANGED relay

\* GET /sessions/{session_id}
get_session(sid) ==
  /\ \/ NoClient("get_session", sid)
     \/ \E o \in StoreOutcomes :
        /\ WithClient
        /\ UNCHANGED <<session_metadata, event_log>>
        /\ o = "data" => Select(session_metadata, SessionQuery(sid)) # {}
        /\ o = "empty" => Select(session_metadata, SessionQuery(sid)) = {}
        /\ response' =
             IF o = "data"
             THEN Response("get_session", sid, HTTP_200_OK, <<SessionRow(sid)>>)
             ELSE IF o = "empty"
             THEN Raises("get_session", sid,
                           ExceptException(HTTPException(HTTP_404_NOT_FOUND,
                                                        "Session not found")))
             ELSE Raises("get_session", sid, ExceptException(APIError))
  /\ UNCHANGED relay

\* POST /events/
create_event(sid) ==
  /\ \/ NoClient("create_event", sid)
     \/ \E t \in Times, o \in StoreOutcomes :
        /\ WithClient
        /\ session_metadata' = session_metadata
        /\ LET row == EventRow(Cardinality(event_log) + 1, sid, t)
           IN  IF o = "error"
               THEN /\ event_log' = event_log
                    /\ response' = Raises("create_event", sid,
                                            ExceptException(APIError))
               ELSE /\ event_log' = event_log \cup {row}
                    /\ response' =
                         IF o = "data"
                         THEN Response("create_event", sid, HTTP_201_CREATED,
                                       <<row>>)
                         ELSE Raises("create_event", sid,
                                       ExceptException(HTTPException(
                                     HTTP_500_INTERNAL_SERVER_ERROR, "Failed to create")))
  /\ UNCHANGED relay

\* GET /sessions/{session_id}/events
get_events_for_session(sid) ==
  /\ \/ NoClient("get_events_for_session", sid)
     \/ \E o \in StoreOutcomes :
        /\ WithClient
        /\ UNCHANGED <<session_metadata, event_log>>
        /\ o = "data" => Select(event_log, EventsQuery(sid)) # {}
        /\ o = "empty" => Select(event_log, EventsQuery(sid)) = {}
        /\ IF o = "error"
           THEN response' = Raises("get_events_for_session", sid,
                                     ExceptException(APIError))
           ELSE \E rows \in Answers(event_log, EventsQuery(sid)) :
                  response' = Response("get_events_for_session", sid,
                                       StatusOfEvents(rows), rows)
  /\ UNCHANGED relay

\* The service under any setting of the two environment variables, its
\* endpoints called one request at a time and its manager driven directly.
InitHttp ==
  /\ active_connections = <<>>
  /\ pc = [c \in Conns |-> "idle"]
  /\ client_id = [c \in Conns |-> ((c - 1) % NumClientIds) + 1]
  /\ data = [c \in Conns |-> None]
  /\ visited = [c \in Conns |-> <<>>]
  /\ snap = [c \in Conns |-> <<>>]
  /\ message = [c \in Conns |-> NoMessage]
  /\ chan = [c \in Conns |-> "open"]
  /\ sent = [c \in Conns |-> <<>>]
  /\ delivered = [c \in Conns |-> <<>>]
  /\ raised = [c \in Conns |-> NoError]
  /\ removals = [c \in Conns |-> 0]
  /\ nmsg = 0
  /\ err = NoCall
  /\ supabase_url \in Settings
  /\ supabase_key \in Settings
  /\ session_metadata = {}
  /\ event_log = {}
  /\ response = NoResponse
  /\ store_calls = 0

NextStore ==
  \/ \E sid \in SessionIds : create_session(sid)
  \/ \E sid \in SessionIds : get_session(sid)
  \/ \E sid \in SessionIds : create_event(sid)
  \/ \E sid \in SessionIds : get_events_for_session(sid)

\* the endpoints alone
SpecStore == InitHttp /\ [][NextStore]_vars

\* the endpoints and the relay side by side
NextHttp ==
  \/ NextStore
  \/ \E c \in 1..OrderConns : MgrConnect(c)
  \/ \E c \in 1..OrderConns : MgrLeave(c)

SpecHttp == InitHttp /\ [][NextHttp]_vars

\* =================================================================
\* Properties
\* =================================================================
\* the handler of c is in its receive loop: it has joined and not left
InLoop(c) == pc[c] \in {"recv", "echo", "bcast"}

\* the texts the peer of c can type
TextsOf(c) == {PeerText(c, n) : n \in 1..MaxMsgs}

NoDuplicates(s) == \A i, j \in 1..Len(s) : s[i] = s[j] => i = j

\* C1: active_connections holds exactly the connections that have joined and
\* not yet left, each once: a connection whose handler is in its receive loop
\* is in the list once, every other connection is not in it.
C1_RegistryIsJoinedNotLeft ==
  \A c \in Conns : Count(active_connections, c) = (IF InLoop(c) THEN 1 ELSE 0)

\* C2: when a send of a broadcast call fails, every other connection of the
\* list the call started on that is still registered and whose peer is there
\* has been delivered the message of that call.
C2_FailedSendIsolated ==
  \A x \in Conns :
    (raised[x].at = "bcast" /\ Len(raised[x].registry) >= 3) =>
      \A b \in Range(raised[x].registry) \ {raised[x].to} :
        (b \in Range(active_connections) /\ chan[b] = "open")
          => raised[x].message \in Range(delivered[b])

\* C3: the step in which a send of X's broadcast to another connection Y
\* fails leaves X's handler in its receive loop and X in the registry, and
\* sends no departure notice naming X.
C3_FailureStaysWithY ==
  [][\A x \in Conns :
       (raised'[x] # raised[x] /\ raised'[x].at = "bcast" /\ raised'[x].to # x)
         => /\ InLoop(x)'
            /\ x \in Range(active_connections')
            /\ \A y \in Conns : sent'[y] = sent[y]]_vars

\* C4: the relayed copy of a text typed by the peer of X is never delivered
\* to X.
C4_RelayNotToSender ==
  \A x \in Conns : \A i \in 1..Len(delivered[x]) :
    delivered[x][i].fmt = ClientSays(None, None).fmt => delivered[x][i].data \notin TextsOf(x)

\* C5: a broadcast visits a point-in-time view of the registry: while it
\* runs it has sent only to connections of the list it started on, to none
\* twice; when it has returned it has sent to every connection of that list
\* that is still registered.
C5_BroadcastPointInTime ==
  \A x \in Conns :
    /\ pc[x] \in {"bcast", "leave"} =>
         /\ Range(visited[x]) \subseteq Range(snap[x])
         /\ NoDuplicates(visited[x])
    /\ pc[x] \in {"recv", "done"} =>
         \A y \in Range(snap[x]) : y \in Range(active_connections) => y \in Range(visited[x])

\* C6: a disconnect call for a connection that has left and is not in the registry raises
\* nothing, and leaves the registry and what each connection has been
\* delivered (no second departure notice) as they were.
C6_LeaveIdempotent ==
  [][\A c \in Conns :
       (/\ err' # err /\ err'.call = "disconnect" /\ err'.arg = c
        /\ removals[c] > 0 /\ c \notin Range(active_connections))
         => /\ err'.exc = ""
            /\ active_connections' = active_connections
            /\ delivered' = delivered]_vars

\* C11: a handler that is broadcasting eventually leaves the broadcast (it
\* returns to reading its next message, or ends), even when the send to one
\* connection of the registry never completes.
C11_SlowDoesNotBlock ==
  \A x \in Conns : (pc[x] = "bcast") ~> (pc[x] # "bcast")

\* C12: once the handler of X has echoed a text and gone on to broadcast it,
\* the store's event_log holds an Event of type "message" whose event_data is
\* that text.
C12_MessageEventRecorded ==
  \A x \in Conns :
    (data[x] # None /\ pc[x] \in {"bcast", "recv"}) =>
      \E e \in event_log : e.event_type = "message" /\ e.event_data = data[x]

\* the connection whose peer typed the text d (PeerText read backwards)
SenderOf(d) == d \div 10

\* C13: of the messages that carry a text of one sender, every connection is
\* sent, and is delivered, those of one kind (echo, relay) in the order the
\* sender typed the texts, never one twice, and none that carries an earlier
\* text after one that carries a later text; and a relay of a text is sent to
\* a connection only after the echo of that text was sent to its sender.
C13_PerSenderOrder ==
  \A z \in Conns :
    /\ \A q \in {sent[z], delivered[z]} :
         \A i, j \in 1..Len(q) :
           (i < j /\ q[i].data # None /\ q[j].data # None
                  /\ SenderOf(q[i].data) = SenderOf(q[j].data)) =>
             /\ q[i].data <= q[j].data
             /\ q[i].fmt = q[j].fmt => q[i].data < q[j].data
    /\ \A i \in 1..Len(sent[z]) :
         sent[z][i].fmt = "Client #{client_id} says: {data}" =>
           \E k \in 1..Len(sent[SenderOf(sent[z][i].data)]) :
             LET m == sent[SenderOf(sent[z][i].data)][k]
             IN  m.fmt = "You wrote: {data}" /\ m.data = sent[z][i].data

\* a connection has been delivered the relays of two texts of another one
C13_Witness ==
  \E x, z \in Conns :
    /\ x # z
    /\ \E i, j \in 1..Len(delivered[z]) :
         /\ i < j
         /\ delivered[z][i].fmt = "Client #{client_id} says: {data}"
         /\ delivered[z][j].fmt = "Client #{client_id} says: {data}"
         /\ SenderOf(delivered[z][i].data) = x
         /\ SenderOf(delivered[z][j].data) = x
         /\ delivered[z][i].data < delivered[z][j].data

\* C14: the response to GET /sessions/{id} that found no record for the id
\* (the endpoint raised "Session not found") has status 404.
C14_MissingSessionIs404 ==
  (response.endpoint = "get_session" /\ response.detail = "Session not found") =>
    response.status = HTTP_404_NOT_FOUND

\* C15: a step in which the accept of a joining connection fails leaves the
\* registry exactly as it was: the connection is not added, no entry changes.
C15_FailedHandshakeNoChange ==
  [][\A c \in Conns :
       (pc[c] = "accept" /\ pc'[c] = "crashed") =>
         active_connections' = active_connections]_vars

\* the accept of a connection has failed while others were registered
C15_Witness ==
  \E c \in Conns :
    /\ pc[c] = "crashed"
    /\ raised[c].at = "accept"
    /\ active_connections # <<>>
    /\ c \notin Range(active_connections)

\* C18: no two connections in the registry were joined under one client
\* identifier.
C18_NoSharedIdentifier ==
  \A i, j \in 1..Len(active_connections) :
    i # j => client_id[active_connections[i]] # client_id[active_connections[j]]

\* C19: a step that changes the registry is a connect whose accept returned
\* and that appends the connection, or a disconnect that removes the
\* connection of the handler that called it; in particular a send of
\* send_personal_message or of broadcast that returns or raises changes the
\* registry by nothing but the disconnect of the handler that sent.
C19_OnlyConnectDisconnectChange ==
  [][active_connections' # active_connections =>
       \E c \in Conns :
         \/ /\ pc[c] = "accept"
            /\ chan[c] = "open"
            /\ pc'[c] = "recv"
            /\ active_connections' = Append(active_connections, c)
         \/ /\ pc[c] \in {"recv", "echo", "bcast"}
            /\ raised'[c] # raised[c]
            /\ raised'[c].exc = WebSocketDisconnect
            /\ removals'[c] = removals[c] + 1
            /\ c \in Range(active_connections)
            /\ active_connections' = ListRemove(active_connections, c)]_vars

\* a send to another connection has failed and that connection is still in
\* the registry
C19_Witness ==
  \E c \in Conns :
    /\ raised[c].at \in {"echo", "bcast", "leave"}
    /\ raised[c].to # c
    /\ raised[c].to \in Range(active_connections)

C17_EventsOfSessionInOrder ==
  [][(/\ store_calls' = store_calls + 1
      /\ response'.endpoint = "get_events_for_session"
      /\ response'.status = HTTP_200_OK) =>
       LET body == response'.body
           stored == {e \in event_log : e.session_id = response'.arg}
       IN  /\ Range(body) = stored
           /\ Len(body) = Cardinality(stored)
           /\ \A i \in 1..(Len(body) - 1) :
                body[i].timestamp <= body[i + 1].timestamp]_vars

\* an answer that holds two events in another order than they were stored
\* in, while the store also holds an event of another session
C17_Witness ==
  /\ response.endpoint = "get_events_for_session"
  /\ response.status = HTTP_200_OK
  /\ Len(response.body) >= 2
  /\ response.body[1].event_id > response.body[2].event_id
  /\ response.body[1].timestamp < response.body[2].timestamp
  /\ \E e \in event_log : e.session_id # response.arg

\* C20: GET /sessions/{id}/events never ends with status 404; when the
\* store holds no event for id, whether it holds a session for id or not, the
\* request ends with status 200 and an empty list unless the store call
\* itself failed.
C20_NoEventsIsEmptyList ==
  [][(/\ store_calls' = store_calls + 1
      /\ response'.endpoint = "get_events_for_session") =>
       /\ response'.status # HTTP_404_NOT_FOUND
       /\ (/\ \A e \in event_log : e.session_id # response'.arg
           /\ response'.detail # APIError.detail) =>
            /\ response'.status = HTTP_200_OK
            /\ response'.body = <<>>]_vars

\* an empty list was the answer for an id no session exists for, while
\* the store holds another session and events of it
C20_Witness ==
  /\ response.endpoint = "get_events_for_session"
  /\ response.status = HTTP_200_OK
  /\ response.body = <<>>
  /\ \A r \in session_metadata : r.session_id # response.arg
  /\ session_metadata # {}
  /\ event_log # {}

\* C7: once the handler of X has removed X from the registry, send_text is
\* never called on X again: not in the step that removes it (which starts
\* its own departure notice), and not in any later step.
C7_NoSendAfterLeave ==
  [][\A x \in Conns : removals'[x] > 0 => sent'[x] = sent[x]]_vars

\* a broadcast that started while X was registered is still running, has not
\* reached X, and X has been removed by its handler
C7_Witness ==
  \E x \in Conns, z \in Conns :
    /\ z # x
    /\ removals[x] > 0
    /\ chan[x] = "closed"
    /\ pc[z] = "bcast"
    /\ x \in Range(snap[z]) \ Range(visited[z])
    /\ Len(visited[z]) < Len(snap[z])

\* C8: when the handler of X has ended after X's disconnect, every
\* connection that was registered when X left, is still registered and has
\* its peer there has been delivered a departure notice naming X.
C8_DepartureReachesAll ==
  \A x \in Conns :
    (pc[x] \in Ended /\ removals[x] > 0 /\ raised[x].at \in {"recv", "leave"}) =>
      \A y \in Range(snap[x]) :
        (y \in Range(active_connections) /\ chan[y] = "open")
          => ClientLeft(client_id[x]) \in Range(delivered[y])

\* C9: a connection whose receive loop has ended has been removed from the
\* registry exactly once and is not in it.
C9_EndedRemovedOnce ==
  \A c \in Conns :
    (pc[c] \in Ended /\ raised[c].at # "accept") =>
      (removals[c] = 1 /\ c \notin Range(active_connections))

\* C10: the step in which a send to Y made by the handler of X fails removes
\* Y from the registry and raises nothing in the handler of X.
C10_FailedSendIsLeave ==
  [][\A x \in Conns :
       (/\ pc[x] \in {"echo", "bcast"}
        /\ chan[Target(x)] = "closed"
        /\ (pc'[x] # pc[x] \/ visited'[x] # visited[x]))
         => /\ Target(x) \notin Range(active_connections')
            /\ raised'[x] = raised[x]]_vars

====
